---- MODULE Spec2Model ----
(***************************************************************************)
(* A model of the lexer cursor (src/syntax/lexer.rs), the backtracking     *)
(* parser driver (src/syntax/ast/mod.rs) and the Number / Factor / Term    *)
(* grammar with its evaluator (src/main.rs).                               *)
(*                                                                         *)
(* A character is a one-element string; a source text is a sequence of     *)
(* characters.  "sup2" stands for a character such as U+00B2 for which     *)
(* char::is_numeric is true although it is not a decimal digit.            *)
(* f64 values are modelled by exact fractions extended with signed zero,   *)
(* the two infinities and NaN; rounding is not modelled.                   *)
(***************************************************************************)
EXTENDS Integers, Sequences, FiniteSets, TLC

VARIABLES input, stream, sub, last, pc, received, stack

vars == <<input, stream, sub, last, pc, received, stack>>

-----------------------------------------------------------------------------
(* Bounds of the model.                                                    *)

MaxLen == 3

MaxDepth == 2

MaxGroups == 2

-----------------------------------------------------------------------------
(* Characters.                                                             *)

DecimalDigits == {"0", "1", "2", "3", "4", "5", "6", "7", "8", "9"}

DigitValue(c) ==
    CASE c = "0" -> 0 [] c = "1" -> 1 [] c = "2" -> 2 [] c = "3" -> 3
      [] c = "4" -> 4 [] c = "5" -> 5 [] c = "6" -> 6 [] c = "7" -> 7
      [] c = "8" -> 8 [] c = "9" -> 9

is_numeric(c) == c \in DecimalDigits \cup {"sup2"}

is_whitespace(c) == c \in {" ", "\n"}

-----------------------------------------------------------------------------
(* Character matchers: trait CharMatcher and mod matchers.                 *)

NumericChar == [k |-> "NumericChar", c |-> ""]

AnyChar == [k |-> "AnyChar", c |-> ""]

SpecificChar(ch) == [k |-> "SpecificChar", c |-> ch]

MatchOk == [ok |-> TRUE, msg |-> <<>>]

MatchErr(m) == [ok |-> FALSE, msg |-> m]

is_match(m, c) ==
    CASE m.k = "NumericChar" ->
           IF is_numeric(c) THEN MatchOk
           ELSE MatchErr(<<"got non-numeric character", c>>)
      [] m.k = "AnyChar" -> MatchOk
      [] m.k = "SpecificChar" ->
           IF c = m.c THEN MatchOk
           ELSE MatchErr(<<"got", c, "but expected", m.c>>)

-----------------------------------------------------------------------------
(* CharIndex.                                                              *)

CharIndexDefault == [line |-> 0, column |-> 0]

advance_num(idx, n) == [idx EXCEPT !.column = @ + n]

CharIndexAdvance(idx, c) ==
    IF c = "\n" THEN [line |-> idx.line + 1, column |-> 0]
    ELSE [idx EXCEPT !.column = @ + 1]

-----------------------------------------------------------------------------
(* IndexedCharIter over the text src: off is the number of characters of   *)
(* src that the underlying Chars iterator has yielded.                     *)

IndexedCharIterNew == [off |-> 0, index |-> CharIndexDefault, whitespace |-> "Skip"]

RECURSIVE SkipWhitespace(_, _)
(* the offset of the first non-whitespace character at or after offset o,  *)
(* or Len(src) + 1 when the iterator runs out while skipping               *)
SkipWhitespace(src, o) ==
    IF o > Len(src) THEN o
    ELSE IF is_whitespace(src[o]) THEN SkipWhitespace(src, o + 1)
    ELSE o

(* Iterator::next: [some, item, it] *)
IterNext(src, it) ==
    IF it.off + 1 > Len(src)
    THEN [some |-> FALSE, idx |-> it.index, c |-> "", it |-> it]
    ELSE LET o == IF it.whitespace = "Skip"
                  THEN SkipWhitespace(src, it.off + 1)
                  ELSE it.off + 1
         IN IF o > Len(src)
            THEN [some |-> FALSE, idx |-> it.index, c |-> "",
                  it |-> [it EXCEPT !.off = Len(src)]]
            ELSE [some |-> TRUE, idx |-> it.index, c |-> src[o],
                  it |-> [it EXCEPT !.off = o,
                                    !.index = CharIndexAdvance(it.index, src[o])]]

-----------------------------------------------------------------------------
(* PeekState, LexerType, LexerError, Span.                                 *)

Present(idx, c) == [tag |-> "Present", idx |-> idx, c |-> c]

Eof(idx) == [tag |-> "Eof", idx |-> idx, c |-> ""]

UntilEof == [tag |-> "UntilEof", m |-> AnyChar]

UntilEnd(m) == [tag |-> "UntilEnd", m |-> m]

LexerErrorEof(position) ==
    [err |-> "EOF", got |-> "", expected |-> <<>>, position |-> position]

LexerErrorIncorrectChar(got, position, expected) ==
    [err |-> "IncorrectChar", got |-> got, expected |-> expected,
     position |-> position]

is_eof(e) == e.err = "EOF"

Span(start, end) == [start |-> start, end |-> end]

-----------------------------------------------------------------------------
(* LexerStream.  A fallible operation returns [ok, c, e, s]: the value or  *)
(* the error, and the cursor as the operation leaves it.                   *)

LexerOk(c, s) == [ok |-> TRUE, c |-> c, e |-> LexerErrorEof(CharIndexDefault), s |-> s]

LexerErr(e, s) == [ok |-> FALSE, c |-> "", e |-> e, s |-> s]

LexerStreamNew(src) ==
    LET n == IterNext(src, IndexedCharIterNew)
    IN [chars |-> n.it,
        peek  |-> IF n.some THEN Present(n.idx, n.c) ELSE Eof(n.it.index),
        ty    |-> UntilEof,
        start |-> n.it.index,
        end   |-> n.it.index]

span(s) == Span(s.start, s.end)

LexerPanic == [err |-> "Panic", got |-> "", expected |-> <<"Not an error value">>,
               position |-> CharIndexDefault]

PeekStateErr(p) == IF p.tag = "Present" THEN LexerPanic ELSE LexerErrorEof(p.idx)

peek(s) ==
    IF s.peek.tag = "Present" THEN LexerOk(s.peek.c, s)
    ELSE LexerErr(PeekStateErr(s.peek), s)

(* advance that draws the next character before it tests the matcher, so  *)
(* that a mismatch consumes the lookahead                                  *)
advance_consuming_mismatch(src, s, m) ==
    IF s.peek.tag # "Present" THEN LexerErr(PeekStateErr(s.peek), s)
    ELSE LET idx == s.peek.idx
             c   == s.peek.c
             n   == IterNext(src, s.chars)
             t   == [s EXCEPT !.chars = n.it,
                              !.peek  = IF n.some THEN Present(n.idx, n.c)
                                        ELSE Eof(advance_num(idx, 1)),
                              !.end   = n.it.index]
         IN IF s.ty.tag = "UntilEnd" /\ is_match(s.ty.m, c).ok
            THEN LexerErr(LexerErrorEof(idx), s)
            ELSE IF ~is_match(m, c).ok
            THEN LexerErr(LexerErrorIncorrectChar(c, idx, is_match(m, c).msg), t)
            ELSE LexerOk(c, t)

(* advance that does not test the bound of the cursor *)
advance_ignoring_bound(src, s, m) ==
    IF s.peek.tag # "Present" THEN LexerErr(PeekStateErr(s.peek), s)
    ELSE LET idx == s.peek.idx
             c   == s.peek.c
             n   == IterNext(src, s.chars)
         IN IF ~is_match(m, c).ok
            THEN LexerErr(LexerErrorIncorrectChar(c, idx, is_match(m, c).msg), s)
            ELSE LexerOk(c, [s EXCEPT
                        !.chars = n.it,
                        !.peek  = IF n.some THEN Present(n.idx, n.c)
                                  ELSE Eof(advance_num(idx, 1)),
                        !.end   = n.it.index])

advance(src, s, m) ==
    IF s.peek.tag # "Present" THEN LexerErr(PeekStateErr(s.peek), s)
    ELSE LET idx == s.peek.idx
             c   == s.peek.c
         IN IF s.ty.tag = "UntilEnd" /\ is_match(s.ty.m, c).ok
            THEN LexerErr(LexerErrorEof(idx), s)
            ELSE IF ~is_match(m, c).ok
            THEN LexerErr(LexerErrorIncorrectChar(c, idx, is_match(m, c).msg), s)
            ELSE LET n == IterNext(src, s.chars)
                 IN LexerOk(c, [s EXCEPT
                        !.chars = n.it,
                        !.peek  = IF n.some THEN Present(n.idx, n.c)
                                  ELSE Eof(advance_num(idx, 1)),
                        !.end   = n.it.index])

eat(src, s, ch) == advance(src, s, SpecificChar(ch))

(* Below, CHOOSE y \in {e(x) : x \in {v}} : TRUE is LET x == v IN e(x) with *)
(* v evaluated once, however often e uses x.                               *)

RECURSIVE EatUntilLoop(_, _, _)
(* a loop that stops in front of the boundary character *)
EatUntilLoopStopAtBoundary(src, s, m) ==
    CHOOSE y \in
      {IF s.peek.tag = "Present" /\ is_match(m, s.peek.c).ok THEN LexerOk(s.peek.c, s)
       ELSE IF ~a.ok THEN a
       ELSE EatUntilLoop(src, a.s, m) : a \in {advance(src, s, AnyChar)}} : TRUE

(* the while loop of eat_until on the cursor s: [ok, c, e, s] *)
EatUntilLoop(src, s, m) ==
    CHOOSE y \in
      {IF ~a.ok THEN a
       ELSE IF is_match(m, a.c).ok THEN a
       ELSE EatUntilLoop(src, a.s, m) : a \in {advance(src, s, AnyChar)}} : TRUE

(* eat_until that returns its clone without a bound *)
eat_until_unbounded(src, s, m) ==
    CHOOSE y \in
      {[ok |-> l.ok, e |-> l.e, s |-> l.s, new_lexer |-> s] :
           l \in {EatUntilLoop(src, s, m)}} : TRUE

(* eat_until that takes the end of the input for the boundary *)
eat_until_to_end(src, s, m) ==
    CHOOSE y \in
      {[ok |-> TRUE, e |-> l.e, s |-> l.s, new_lexer |-> [s EXCEPT !.ty = UntilEnd(m)]] :
           l \in {EatUntilLoop(src, s, m)}} : TRUE

(* eat_until: [ok, e, s (self afterwards), new_lexer] *)
eat_until(src, s, m) ==
    CHOOSE y \in
      {[ok |-> l.ok, e |-> l.e, s |-> l.s, new_lexer |-> [s EXCEPT !.ty = UntilEnd(m)]] :
           l \in {EatUntilLoop(src, s, m)}} : TRUE

-----------------------------------------------------------------------------
(* f64.  [s, n, d] is the value s * n / d: n = 0, d = 1 is a signed zero,   *)
(* n = 1, d = 0 a signed infinity and n = 0, d = 0 NaN.                    *)

RECURSIVE Gcd(_, _)
Gcd(a, b) == IF b = 0 THEN a ELSE Gcd(b, a % b)

NaN == [s |-> 1, n |-> 0, d |-> 0]

F64(s, n, d) ==
    IF n = 0 /\ d = 0 THEN NaN
    ELSE [s |-> s, n |-> n \div Gcd(n, d), d |-> d \div Gcd(n, d)]

FromInt(i) == IF i < 0 THEN F64(-1, -i, 1) ELSE F64(1, i, 1)

f64_neg(a) == IF a = NaN THEN NaN ELSE [a EXCEPT !.s = -a.s]

f64_mul(a, b) == F64(a.s * b.s, a.n * b.n, a.d * b.d)

f64_div(a, b) == F64(a.s * b.s, a.n * b.d, a.d * b.n)

f64_add(a, b) ==
    IF a = NaN \/ b = NaN THEN NaN
    ELSE IF a.d = 0 THEN (IF b.d = 0 /\ a.s # b.s THEN NaN ELSE a)
    ELSE IF b.d = 0 THEN b
    ELSE LET num == a.s * a.n * b.d + b.s * b.n * a.d
             den == a.d * b.d
         IN IF num = 0
            THEN F64(IF a.n = 0 /\ b.n = 0 /\ a.s = -1 /\ b.s = -1 THEN -1 ELSE 1,
                     0, 1)
            ELSE IF num < 0 THEN F64(-1, -num, den) ELSE F64(1, num, den)

f64_sub(a, b) == f64_add(a, f64_neg(b))

RECURSIVE Pow10(_)
Pow10(k) == IF k = 0 THEN 1 ELSE 10 * Pow10(k - 1)

RECURSIVE DecimalToNat(_)
DecimalToNat(ds) ==
    IF ds = <<>> THEN 0
    ELSE 10 * DecimalToNat(SubSeq(ds, 1, Len(ds) - 1)) + DigitValue(ds[Len(ds)])

IsDot(c) == c = "."

IsNotDot(c) == c # "."

(* str::parse::<f64> on a text made of '.' and is_numeric characters:     *)
(* [ok, val]                                                               *)
ParseF64(chars) ==
    LET digits == SelectSeq(chars, IsNotDot)
        dots   == SelectSeq(chars, IsDot)
        dotAt  == CHOOSE i \in 1..Len(chars) : chars[i] = "."
        frac   == IF dots = <<>> THEN 0 ELSE Len(chars) - dotAt
    IN IF Len(dots) > 1 \/ digits = <<>>
          \/ \E i \in 1..Len(digits) : digits[i] \notin DecimalDigits
       THEN [ok |-> FALSE, val |-> NaN]
       ELSE [ok |-> TRUE, val |-> F64(1, DecimalToNat(digits), Pow10(frac))]

-----------------------------------------------------------------------------
(* Node, ParseError and the grammar values.                                *)

Node(value, sp) == [value |-> value, span |-> sp]

LexerErrorTy(e) == [tag |-> "LexerError", e |-> e]

EmptyNumberLiteral == [tag |-> "EmptyNumberLiteral"]

ExtraDotInNumberLiteral == [tag |-> "ExtraDotInNumberLiteral"]

ParseError(sp, ty) == [span |-> sp, ty |-> ty]

LexerErrorPosition(e) == e.position

FromLexerError(e) ==
    ParseError(Span(LexerErrorPosition(e), LexerErrorPosition(e)), LexerErrorTy(e))

Number(v) == [t |-> "Number", v |-> v]

FactorVal(n) == [t |-> "Factor::Val", n |-> n]

Parenthesis(n) == [t |-> "Factor::Parenthesis", a |-> n]

Mul(a, b) == [t |-> "Factor::Mul", a |-> a, b |-> b]

Div(a, b) == [t |-> "Factor::Div", a |-> a, b |-> b]

TermVal(f) == [t |-> "Term::Val", f |-> f]

Add(a, b) == [t |-> "Term::Add", a |-> a, b |-> b]

Sub(a, b) == [t |-> "Term::Sub", a |-> a, b |-> b]

(* num.wrap(|v| Factor::Val(v)) *)
wrapFactorVal(node) == Node(FactorVal(node.value), node.span)

(* num.wrap(|v| Term::Val(v)) *)
wrapTermVal(node) == Node(TermVal(node.value), node.span)

RECURSIVE evaluate(_)
(* Factor::evaluate and Term::evaluate *)
evaluate(v) ==
    CASE v.t = "Factor::Parenthesis" -> evaluate(v.a.value)
      [] v.t = "Factor::Val" -> v.n.v
      [] v.t = "Factor::Mul" -> f64_mul(evaluate(v.a.value), evaluate(v.b.value))
      [] v.t = "Factor::Div" -> f64_div(evaluate(v.a.value), evaluate(v.b.value))
      [] v.t = "Term::Val" -> evaluate(v.f)
      [] v.t = "Term::Add" -> f64_add(evaluate(v.a.value), evaluate(v.b.value))
      [] v.t = "Term::Sub" -> f64_sub(evaluate(v.a.value), evaluate(v.b.value))

-----------------------------------------------------------------------------
(* Parser.  The driver's state is its stream.  A parse returns             *)
(* [kind, node, e, s]: kind is "Ok", "Err" or "Panic" (the process aborts) *)
(* and s is the driver's stream as the call leaves it.                     *)

NoNode == Node(Number(NaN), Span(CharIndexDefault, CharIndexDefault))

NoError == ParseError(Span(CharIndexDefault, CharIndexDefault), EmptyNumberLiteral)

POk(node, s) == [kind |-> "Ok", node |-> node, e |-> NoError, s |-> s]

PErr(e, s) == [kind |-> "Err", node |-> NoNode, e |-> e, s |-> s]

PPanic(s) == [kind |-> "Panic", node |-> NoNode, e |-> NoError, s |-> s]

ParserNew(src) == LexerStreamNew(src)

ParserErr(s, ty) == ParseError(span(s), ty)

ParserNode(s, value) == Node(value, span(s))

PeekIs(s, ch) == peek(s).ok /\ peek(s).c = ch

(* Number::parse from the end of its loop: the literal text is chars *)
NumberFinish(s, chars, negate) ==
    IF chars = <<>> THEN PErr(ParserErr(s, EmptyNumberLiteral), s)
    ELSE LET f == ParseF64(chars)
         IN IF ~f.ok THEN PPanic(s)
            ELSE POk(Node(Number(IF negate THEN f64_neg(f.val) ELSE f.val),
                          span(s)), s)

RECURSIVE NumberLoop(_, _, _, _, _)
(* the loop of Number::parse; d is the eating of a '.', when there is one *)
NumberLoop(src, s, chars, seen_dot, negate) ==
    IF PeekIs(s, ".") /\ seen_dot
    THEN PErr(ParserErr(s, ExtraDotInNumberLiteral), s)
    ELSE CHOOSE y \in
      {IF ~d.ok THEN PErr(FromLexerError(d.e), d.s)
       ELSE CHOOSE z \in
         {IF n.ok
          THEN NumberLoop(src, n.s, n.chars, seen_dot \/ PeekIs(s, "."), negate)
          ELSE NumberFinish(d.s, n.chars, negate) :
              n \in {[ok |-> a.ok, s |-> a.s,
                      chars |-> IF a.ok THEN Append(d.chars, a.c) ELSE d.chars] :
                         a \in {advance(src, d.s, NumericChar)}}} : TRUE :
           d \in (IF PeekIs(s, ".")
                  THEN {[ok |-> e.ok, e |-> e.e, s |-> e.s, chars |-> Append(chars, ".")] :
                            e \in {eat(src, s, ".")}}
                  ELSE {[ok |-> TRUE, e |-> LexerPanic, s |-> s, chars |-> chars]})} : TRUE

NumberParse(src, s) ==
    IF PeekIs(s, "-")
    THEN CHOOSE y \in
      {IF ~a.ok THEN PErr(FromLexerError(a.e), a.s)
       ELSE NumberLoop(src, a.s, <<>>, FALSE, TRUE) : a \in {eat(src, s, "-")}} : TRUE
    ELSE NumberLoop(src, s, <<>>, FALSE, FALSE)

RECURSIVE Parse(_, _, _), RuleParse(_, _, _), ParseWithLexer(_, _, _, _),
          FactorParse(_, _), FactorTail(_, _, _), TermParse(_, _), TermTail(_, _, _),
          Operand(_, _, _, _, _)

(* parse::<rule> that leaves the cursor where the failed rule left it *)
ParseNoRestore(src, rule, s) == RuleParse(src, rule, s)

(* Parser::parse::<rule> *)
Parse(src, rule, s) ==
    CHOOSE y \in
      {IF r.kind = "Err" THEN [r EXCEPT !.s = s] ELSE r :
           r \in {RuleParse(src, rule, s)}} : TRUE

(* parse_with_lexer that leaves the cursor handed to it in the driver *)
ParseWithLexerNoSwapBack(src, rule, s, lexer) == Parse(src, rule, lexer)

(* Parser::parse_with_lexer::<rule> *)
ParseWithLexer(src, rule, s, lexer) ==
    CHOOSE y \in
      {IF v.kind = "Panic" THEN v ELSE [v EXCEPT !.s = s] :
           v \in {Parse(src, rule, lexer)}} : TRUE

(* <rule as Parseable>::parse *)
RuleParse(src, rule, s) ==
    CASE rule = "Number" -> NumberParse(src, s)
      [] rule = "Factor" -> FactorParse(src, s)
      [] rule = "Term"   -> TermParse(src, s)

BinaryValue(op, num, num_two) ==
    CASE op = "*" -> Mul(num, num_two)
      [] op = "/" -> Div(num, num_two)
      [] op = "+" -> Add(num, num_two)
      [] op = "-" -> Sub(num, num_two)

(* an arm of the match in Factor::parse and Term::parse: eat the operator  *)
(* op, parse the right operand as rule and build the node                  *)
Operand(src, s, num, op, rule) ==
    CHOOSE y \in
      {IF ~a.ok THEN PErr(FromLexerError(a.e), a.s)
       ELSE CHOOSE z \in
         {IF p.kind # "Ok" THEN p
          ELSE POk(ParserNode(p.s, BinaryValue(op, num, p.node)), p.s) :
              p \in {Parse(src, rule, a.s)}} : TRUE :
           a \in {eat(src, s, op)}} : TRUE

(* Factor::parse that takes a whole Term as the right operand of * and / *)
FactorTailTermOperand(src, s, num) ==
    IF PeekIs(s, "*") THEN Operand(src, s, num, "*", "Term")
    ELSE IF PeekIs(s, "/") THEN Operand(src, s, num, "/", "Term")
    ELSE POk(num, s)

(* Factor::parse after its primary value num *)
FactorTail(src, s, num) ==
    IF PeekIs(s, "*") THEN Operand(src, s, num, "*", "Factor")
    ELSE IF PeekIs(s, "/") THEN Operand(src, s, num, "/", "Factor")
    ELSE POk(num, s)

(* Factor::parse on '(': a is the eating of '(', u the eat_until *)
FactorParenthesis(src, s) ==
    CHOOSE y \in
      {IF ~a.ok THEN PErr(FromLexerError(a.e), a.s)
       ELSE CHOOSE z \in
         {IF ~u.ok THEN PErr(FromLexerError(u.e), u.s)
          ELSE CHOOSE w \in
            {IF p.kind # "Ok" THEN p
             ELSE FactorTail(src, p.s, Node(Parenthesis(p.node), span(p.s))) :
                 p \in {ParseWithLexer(src, "Term", u.s, u.new_lexer)}} : TRUE :
              u \in {eat_until(src, a.s, SpecificChar(")"))}} : TRUE :
           a \in {eat(src, s, "(")}} : TRUE

FactorParse(src, s) ==
    IF PeekIs(s, "(") THEN FactorParenthesis(src, s)
    ELSE CHOOSE y \in
      {IF p.kind # "Ok" THEN p
       ELSE FactorTail(src, p.s, wrapFactorVal(p.node)) :
           p \in {Parse(src, "Number", s)}} : TRUE

(* Term::parse that takes one Factor as the right operand of + and - *)
TermTailFactorOperand(src, s, num) ==
    IF PeekIs(s, "+") THEN Operand(src, s, num, "+", "Factor")
    ELSE IF PeekIs(s, "-") THEN Operand(src, s, num, "-", "Factor")
    ELSE POk(num, s)

(* Term::parse after its left operand num *)
TermTail(src, s, num) ==
    IF PeekIs(s, "+") THEN Operand(src, s, num, "+", "Term")
    ELSE IF PeekIs(s, "-") THEN Operand(src, s, num, "-", "Term")
    ELSE POk(num, s)

TermParse(src, s) ==
    CHOOSE y \in
      {IF p.kind # "Ok" THEN p
       ELSE TermTail(src, p.s, wrapTermVal(p.node)) :
           p \in {Parse(src, "Factor", s)}} : TRUE

-----------------------------------------------------------------------------
(* The source texts the model is run on.                                   *)

Strings(alphabet, n) == UNION {[1..k -> alphabet] : k \in 0..n}

Alphabet == {"1", "2", ".", "-", "+", "*", "/", "(", ")", " ", "x", "sup2"}

ShortInputs == Strings(Alphabet, MaxLen)

(* texts made of the characters of a number literal *)
NumberInputs == Strings({"1", "2", ".", "-"}, MaxLen + 1)

Lit(text, val) == [text |-> text, val |-> val]

Literals ==
    {Lit(<<"0">>, FromInt(0)), Lit(<<"1">>, FromInt(1)), Lit(<<"2">>, FromInt(2)),
     Lit(<<"3">>, FromInt(3)), Lit(<<"5">>, FromInt(5)), Lit(<<"9">>, FromInt(9)),
     Lit(<<"-", "2">>, FromInt(-2)), Lit(<<"1", ".", "5">>, F64(1, 3, 2))}

ChainOps == {<<"/", "*">>, <<"+", "*">>, <<"*", "+">>, <<"-", "-">>, <<"/", "/">>}

Chain(a, o, b, p, c) == a.text \o <<o>> \o b.text \o <<p>> \o c.text

(* a op b op c for literals a, b, c *)
ChainInputs ==
    {Chain(a, o[1], b, o[2], c) : a \in Literals, b \in Literals, c \in Literals,
                                  o \in ChainOps}

ApplyOp(o, x, y) ==
    CASE o = "+" -> f64_add(x, y)
      [] o = "-" -> f64_sub(x, y)
      [] o = "*" -> f64_mul(x, y)
      [] o = "/" -> f64_div(x, y)

ParenLits == {Lit(<<"2">>, FromInt(2))}

ParenOps == {"+", "*"}

InParens(e) == Lit(<<"(">> \o e.text \o <<")">>, e.val)

Binary(a, o, b) == Lit(a.text \o <<o>> \o b.text, ApplyOp(o, a.val, b.val))

RECURSIVE ParenExprs(_)
(* expressions nested at most k deep in which every operator has at least  *)
(* one literal operand and the other operand is a literal or parenthesized, *)
(* each with the value its parentheses dictate                             *)
ParenExprs(k) ==
    LET atoms == ParenLits \cup
                 (IF k = 0 THEN {} ELSE {InParens(e) : e \in ParenExprs(k - 1)})
    IN atoms \cup {Binary(a, o, b) : a \in atoms, o \in ParenOps, b \in ParenLits}
             \cup {Binary(a, o, b) : a \in ParenLits, o \in ParenOps, b \in atoms}

NamedParenExprs ==
    {Lit(<<"(", "1", "+", "2", ")", "*", "5">>, FromInt(15)),
     Lit(<<"(", "(", "1", "+", "2", ")", ")", "*", "5">>, FromInt(15)),
     Lit(<<"(", "2", "*", "(", "3", "+", "4", ")", ")">>, FromInt(14))}

ParenFamily == ParenExprs(MaxDepth) \cup NamedParenExprs

ParenInputs == {e.text : e \in ParenFamily}

(* a complete expression, a gap and characters that cannot continue it;    *)
(* at is the offset in the text of the first of those characters           *)
Trail(e, gap, tail) ==
    [text |-> e.text \o gap \o tail, val |-> e.val, at |-> Len(e.text) + Len(gap) + 1]

TrailExprs ==
    {Lit(<<"1", "+", "2">>, FromInt(3)), Lit(<<"2">>, FromInt(2)),
     Lit(<<"2", "*", "5">>, FromInt(10))}

TrailGaps == {<<>>, <<" ">>}

TrailTails == {<<"e", "x", "t", "r", "a">>, <<"x">>, <<")">>}

TrailingFamily ==
    {Trail(e, gap, tail) : e \in TrailExprs, gap \in TrailGaps, tail \in TrailTails}

TrailingInputs == {e.text : e \in TrailingFamily}

BinaryOps == {"+", "-", "*", "/"}

(* a number literal and a binary operator with nothing after it *)
OperatorEndInputs == {a.text \o <<o>> : a \in Literals, o \in BinaryOps}

Inputs ==
    ShortInputs \cup NumberInputs \cup ChainInputs \cup ParenInputs
        \cup TrailingInputs \cup OperatorEndInputs

-----------------------------------------------------------------------------
(* The parser driver run on a text: a client constructs a Parser and calls *)
(* parse::<Number>, parse::<Factor> or parse::<Term> on it, any number of  *)
(* times, until a call aborts the process.  last records the latest call:  *)
(* the stream before it, the stream when the rule returned (raw) and the   *)
(* result.                                                                 *)

NoOp == [op |-> "none"]

Init ==
    /\ input \in Inputs
    /\ stream = ParserNew(input)
    /\ sub = ParserNew(input)
    /\ last = NoOp
    /\ pc = "run"
    /\ received = <<>>
    /\ stack = <<>>

DoParse(rule) ==
    /\ pc = "run"
    /\ \E r \in {Parse(input, rule, stream)} :
          /\ stream' = r.s
          /\ last' = [op |-> "parse", rule |-> rule, before |-> stream,
                      raw |-> RuleParse(input, rule, stream).s, res |-> r]
          /\ pc' = IF r.kind = "Panic" THEN "aborted" ELSE "run"
    /\ UNCHANGED <<input, sub, received, stack>>

ParseNumber == DoParse("Number")

ParseFactor == DoParse("Factor")

ParseTerm == DoParse("Term")

(* state.lexer().advance::<AnyChar>(): a client moves the driver's cursor *)
LexerAdvance ==
    /\ pc = "run"
    /\ \E r \in {advance(input, stream, AnyChar)} :
          /\ r.ok
          /\ stream' = r.s
          /\ last' = [op |-> "advance", on |-> "stream", m |-> AnyChar,
                      before |-> stream, res |-> r]
    /\ UNCHANGED <<input, sub, pc, received, stack>>

Next == ParseNumber \/ ParseFactor \/ ParseTerm \/ LexerAdvance

Spec == Init /\ [][Next]_vars

-----------------------------------------------------------------------------
(* Properties of the grammar and of the driver, under Spec.                *)

(* the latest call was parse::<rule> on a newly constructed Parser *)
FreshParse(rule) ==
    last.op = "parse" /\ last.rule = rule /\ last.before = ParserNew(input)

Value(r) == evaluate(r.node.value)

(* C1: a parenthesis-free chain of multiplicative operators is evaluated   *)
(* left to right: parsing a/b*c as Term and evaluating yields (a/b)*c.     *)
C1_LeftToRight ==
    (FreshParse("Term") /\ input \in ChainInputs)
    => \A a \in Literals, b \in Literals, c \in Literals :
           input = Chain(a, "/", b, "*", c)
           => /\ last.res.kind = "Ok"
              /\ Value(last.res) = f64_mul(f64_div(a.val, b.val), c.val)

(* C2: multiplicative operators bind tighter than additive ones: parsing   *)
(* a+b*c as Term and evaluating yields a+(b*c), and a*b+c yields (a*b)+c.  *)
C2_MulBindsTighter ==
    (FreshParse("Term") /\ input \in ChainInputs)
    => \A a \in Literals, b \in Literals, c \in Literals :
           /\ input = Chain(a, "+", b, "*", c)
              => /\ last.res.kind = "Ok"
                 /\ Value(last.res) = f64_add(a.val, f64_mul(b.val, c.val))
           /\ input = Chain(a, "*", b, "+", c)
              => /\ last.res.kind = "Ok"
                 /\ Value(last.res) = f64_add(f64_mul(a.val, b.val), c.val)

(* 1+2*5 and 2*5+1 have been parsed as Term and evaluate to 11 *)
C2_Witness ==
    /\ FreshParse("Term")
    /\ input \in {<<"1", "+", "2", "*", "5">>, <<"2", "*", "5", "+", "1">>}
    /\ last.res.kind = "Ok"
    /\ Value(last.res) = FromInt(11)

(* C3: parenthesization overrides precedence at any nesting depth: every   *)
(* well-formed expression with balanced parentheses parses as Term and     *)
(* evaluates as its parentheses dictate.                                   *)
C3_ParensOverride ==
    (FreshParse("Term") /\ input \in ParenInputs)
    => /\ last.res.kind = "Ok"
       /\ Value(last.res) = (CHOOSE e \in ParenFamily : e.text = input).val

(* C4: whenever parse::<Rule> returns an error, the driver's cursor        *)
(* afterwards equals the cursor immediately before the call.               *)
C4_BacktrackLossless ==
    (last.op = "parse" /\ last.res.kind = "Err") => stream = last.before

(* a rule failed after consuming characters, through eat and eat_until *)
C4_Witness ==
    /\ last.op = "parse"
    /\ last.res.kind = "Err"
    /\ last.raw.end.column > last.before.end.column + 1
    /\ last.before.peek = Present(CharIndexDefault, "(")
    /\ stream = last.before

DotsOf(text) == Len(SelectSeq(text, IsDot))

(* texts that are one number literal with two or more dots *)
ManyDotLiterals ==
    {t \in NumberInputs : DotsOf(t) >= 2 /\ \A i \in 2..Len(t) : t[i] # "-"}

(* C7: parsing as Number a text whose literal has two or more dots fails   *)
(* with ExtraDotInNumberLiteral, whether the dots are apart or adjacent.   *)
C7_ExtraDotFails ==
    (FreshParse("Number") /\ input \in ManyDotLiterals)
    => /\ last.res.kind = "Err"
       /\ last.res.e.ty = ExtraDotInNumberLiteral

NotWhitespace(c) == ~is_whitespace(c)

(* the characters the character source yields for a text *)
Yielded(text) == SelectSeq(text, NotWhitespace)

(* the cases in which Number comes upon no digit *)
NoDigitText(text) ==
    \/ Yielded(text) = <<>>
    \/ Yielded(text)[1] \notin DecimalDigits \cup {"-", "."}
    \/ Yielded(text) \in {<<"-">>, <<".">>, <<"-", ".">>}

(* C8: parsing as Number fails with EmptyNumberLiteral whenever no digit   *)
(* is consumed: empty text, a first character that is neither digit, '-'   *)
(* nor '.', a lone "-", a lone "." or "-.".                                *)
C8_EmptyNumberFails ==
    (FreshParse("Number") /\ NoDigitText(input))
    => /\ last.res.kind = "Err"
       /\ last.res.e.ty = EmptyNumberLiteral

(* C9: parse::<Term> returns Ok or Err for every text and never aborts the *)
(* process.                                                                *)
C9_NeverPanics ==
    (last.op = "parse" /\ last.rule = "Term")
    => (last.res.kind \in {"Ok", "Err"} /\ pc # "aborted")

(* C10: the span of a node returned by a successful parse::<Rule> is the   *)
(* region the rule consumed: from the position of the first character it   *)
(* consumed to the position just after the last one.                       *)
C10_SpanIsConsumedRegion ==
    (last.op = "parse" /\ last.res.kind = "Ok")
    => /\ last.res.node.span.start = last.before.peek.idx
       /\ last.res.node.span.end = last.res.s.peek.idx

-----------------------------------------------------------------------------
(* The lexer cursor on its own: a cursor over a text, and a second cursor  *)
(* that starts as its clone and is replaced by what eat_until returns.     *)
(* last records the latest call: the cursor before it and the result.      *)

LexAlphabet == {"1", "(", ")", " ", "x", "sup2"}

LexInputs == Strings(LexAlphabet, MaxLen)

LexMatchers == {AnyChar, NumericChar, SpecificChar(")")}

InitLex ==
    /\ input \in LexInputs
    /\ stream = LexerStreamNew(input)
    /\ sub = LexerStreamNew(input)
    /\ last = NoOp
    /\ pc = "lex"
    /\ received = <<>>
    /\ stack = <<>>

Advance(m) ==
    /\ \E r \in {advance(input, stream, m)} :
          /\ stream' = r.s
          /\ last' = [op |-> "advance", on |-> "stream", m |-> m,
                      before |-> stream, res |-> r]
    /\ UNCHANGED <<input, sub, pc, received, stack>>

SubAdvance(m) ==
    /\ \E r \in {advance(input, sub, m)} :
          /\ sub' = r.s
          /\ last' = [op |-> "advance", on |-> "sub", m |-> m,
                      before |-> sub, res |-> r]
    /\ UNCHANGED <<input, stream, pc, received, stack>>

Peek ==
    /\ last' = [op |-> "peek", on |-> "stream", m |-> AnyChar,
                before |-> stream, res |-> peek(stream)]
    /\ stream' = peek(stream).s
    /\ UNCHANGED <<input, sub, pc, received, stack>>

EatUntil(m) ==
    /\ \E r \in {eat_until(input, stream, m)} :
          /\ stream' = r.s
          /\ sub' = IF r.ok THEN r.new_lexer ELSE sub
          /\ last' = [op |-> "eat_until", on |-> "stream", m |-> m,
                      before |-> stream, res |-> r]
    /\ UNCHANGED <<input, pc, received, stack>>

SubEatUntil(m) ==
    /\ \E r \in {eat_until(input, sub, m)} :
          /\ sub' = r.s
          /\ last' = [op |-> "eat_until", on |-> "sub", m |-> m,
                      before |-> sub, res |-> r]
    /\ UNCHANGED <<input, stream, pc, received, stack>>

NextLex ==
    \/ \E m \in LexMatchers : Advance(m)
    \/ \E m \in LexMatchers : SubAdvance(m)
    \/ Peek
    \/ \E m \in LexMatchers : EatUntil(m)
    \/ \E m \in LexMatchers : SubEatUntil(m)

SpecLex == InitLex /\ [][NextLex]_vars

-----------------------------------------------------------------------------
(* Properties of eat_until, under SpecLex.                                 *)

(* the characters a cursor has yet to yield, its lookahead first *)
Upcoming(src, s) ==
    IF s.peek.tag = "Present"
    THEN <<s.peek.c>> \o Yielded(SubSeq(src, s.chars.off + 1, Len(src)))
    ELSE <<>>

(* the index in text of the first character that satisfies m *)
FirstMatch(text, m) ==
    CHOOSE j \in 1..Len(text) :
        is_match(m, text[j]).ok /\ \A i \in 1..(j - 1) : ~is_match(m, text[i]).ok

EatUntilDone == last.op = "eat_until" /\ last.res.ok

(* the cursor eat_until returned is the cursor before the call, bounded *)
ReturnedIsBoundedClone ==
    /\ last.res.new_lexer.ty = UntilEnd(last.m)
    /\ last.res.new_lexer.peek = last.before.peek
    /\ last.res.new_lexer.chars = last.before.chars

(* C6 as stated: after a successful eat_until(matcher) the returned cursor *)
(* is bounded by matcher with the lookahead and source position the parent *)
(* had, and the parent's lookahead is the first character satisfying       *)
(* matcher, the boundary character itself.                                 *)
C6_ParentAtBoundary ==
    EatUntilDone
    => LET up == Upcoming(input, last.before)
           j  == FirstMatch(up, last.m)
       IN /\ ReturnedIsBoundedClone
          /\ last.res.s.peek = Present(advance_num(last.before.peek.idx, j - 1), up[j])

(* C6 amended: after a successful eat_until(matcher) the returned cursor   *)
(* is bounded by matcher with the lookahead and source position the parent *)
(* had, and the parent has consumed the first character satisfying         *)
(* matcher: its lookahead is whatever follows the boundary character.      *)
C6_ParentPastBoundary ==
    EatUntilDone
    => LET up == Upcoming(input, last.before)
           j  == FirstMatch(up, last.m)
       IN /\ ReturnedIsBoundedClone
          /\ Upcoming(input, last.res.s) = SubSeq(up, j + 1, Len(up))
          /\ last.res.s.peek.idx = advance_num(last.before.peek.idx, j)

(* eat_until skipped a region, met its boundary and more text follows *)
C6_Witness ==
    /\ EatUntilDone
    /\ FirstMatch(Upcoming(input, last.before), last.m) > 1
    /\ last.res.s.peek.tag = "Present"
    /\ sub = last.res.new_lexer

-----------------------------------------------------------------------------
(* Further properties of the grammar and of the driver, under Spec.        *)

RECURSIVE PositionOf(_, _)
(* the position in the text src of its character at offset o (from 1) *)
PositionOf(src, o) ==
    IF o <= 1 THEN CharIndexDefault
    ELSE CharIndexAdvance(PositionOf(src, o - 1), src[o - 1])

(* C14: trailing data is detectable after a successful parse: for a text   *)
(* made of a complete expression followed by characters that cannot        *)
(* continue it, such as "1+2 extra", parse::<Term> succeeds with the value *)
(* of the expression and leaves the cursor not at end of input, its        *)
(* lookahead being the first unconsumed character at that character's      *)
(* position in the text.                                                   *)
C14_TrailingDataAtPosition ==
    (FreshParse("Term") /\ input \in TrailingInputs)
    => LET t == CHOOSE t \in TrailingFamily : t.text = input
       IN /\ last.res.kind = "Ok"
          /\ Value(last.res) = t.val
          /\ stream.peek = Present(PositionOf(input, t.at), input[t.at])

(* C15: a text that ends right after a binary operator fails as Term with  *)
(* EmptyNumberLiteral located at the position immediately after the        *)
(* operator: the span of the error is the empty region at that position.   *)
C15_EmptyAfterOperator ==
    (FreshParse("Term") /\ input \in OperatorEndInputs)
    => LET p == PositionOf(input, Len(input) + 1)
       IN /\ last.res.kind = "Err"
          /\ last.res.e.ty = EmptyNumberLiteral
          /\ last.res.e.span = Span(p, p)

Leaf(x) == [op |-> "lit", l |-> x, r |-> x]

Bin(o, l, r) == [op |-> o, l |-> l, r |-> r]

RECURSIVE Shape(_)
(* the tree of a Factor or Term value without its spans and its Val        *)
(* wrappers                                                                *)
Shape(v) ==
    CASE v.t = "Number" -> Leaf(v.v)
      [] v.t = "Factor::Val" -> Shape(v.n)
      [] v.t = "Term::Val" -> Shape(v.f)
      [] v.t = "Factor::Parenthesis" -> Bin("()", Shape(v.a.value), Shape(v.a.value))
      [] v.t = "Factor::Mul" -> Bin("*", Shape(v.a.value), Shape(v.b.value))
      [] v.t = "Factor::Div" -> Bin("/", Shape(v.a.value), Shape(v.b.value))
      [] v.t = "Term::Add" -> Bin("+", Shape(v.a.value), Shape(v.b.value))
      [] v.t = "Term::Sub" -> Bin("-", Shape(v.a.value), Shape(v.b.value))

UnclosedParen(text) ==
    \E i \in 1..Len(text) :
        text[i] = "(" /\ \A j \in (i + 1)..Len(text) : text[j] # ")"

(* the position at which the characters a cursor has yet to yield end *)
EndPosition(src, s) == advance_num(s.peek.idx, Len(Upcoming(src, s)))

(* the result is the lexer's EndOfInput error at position p *)
IsLexerEof(r, p) ==
    r.kind = "Err" /\ r.e = FromLexerError(LexerErrorEof(p))

(* C20 as stated: if the text contains a '(' with no ')' after it,         *)
(* parse::<Term> fails with the lexer's EndOfInput error and the driver's  *)
(* cursor is afterwards as it was before the parse began.                  *)
C20_UnclosedParenFails ==
    (FreshParse("Term") /\ UnclosedParen(input))
    => /\ IsLexerEof(last.res, EndPosition(input, last.before))
       /\ stream = last.before

(* C20 amended: if Factor or Term is parsed at a cursor whose lookahead is *)
(* '(' and no ')' follows it, eat_until reaches the end of the input and   *)
(* the parse fails with the lexer's EndOfInput error at the end position,  *)
(* and the driver's cursor is afterwards as it was before the call.        *)
C20_UnclosedParenAtFactorFails ==
    (/\ last.op = "parse"
     /\ last.rule \in {"Factor", "Term"}
     /\ last.before.peek.tag = "Present"
     /\ last.before.peek.c = "("
     /\ \A i \in 1..Len(Upcoming(input, last.before)) :
            Upcoming(input, last.before)[i] # ")")
    => /\ IsLexerEof(last.res, EndPosition(input, last.before))
       /\ stream = last.before

(* Term was parsed at an unclosed '(' followed by text, after the driver's *)
(* cursor had been moved, and failed                                       *)
C20_Witness ==
    /\ last.op = "parse"
    /\ last.rule = "Term"
    /\ last.before.peek.tag = "Present"
    /\ last.before.peek.c = "("
    /\ last.before.peek.idx.column >= 1
    /\ Len(Upcoming(input, last.before)) >= 2
    /\ UnclosedParen(input)
    /\ IsLexerEof(last.res, EndPosition(input, last.before))
    /\ last.res.e.span.start.column >= last.before.peek.idx.column + 2
    /\ stream = last.before

-----------------------------------------------------------------------------
(* Properties of advance and peek, under SpecLex.                          *)

(* the cursor the latest call was made on, as it is now *)
Target == IF last.on = "stream" THEN stream ELSE sub

(* the cursor s is bounded and its lookahead satisfies the bound *)
AtBound(s) ==
    s.ty.tag = "UntilEnd" /\ s.peek.tag = "Present" /\ is_match(s.ty.m, s.peek.c).ok

(* C12: a failing advance(matcher) consumes nothing, in each of its cases: *)
(* no character is available (EndOfInput), the cursor is bounded and the   *)
(* lookahead satisfies the bound (EndOfInput), the lookahead fails the     *)
(* matcher (IncorrectChar with the lookahead character and its position).  *)
(* The lookahead, the position and the span are as before the call.        *)
(* peek() never changes the cursor.                                        *)
C12_FailedAdvanceConsumesNothing ==
    /\ (last.op = "advance" /\ ~last.res.ok)
       => /\ Target = last.before
          /\ IF last.before.peek.tag # "Present" \/ AtBound(last.before)
             THEN last.res.e = LexerErrorEof(last.before.peek.idx)
             ELSE /\ ~is_match(last.m, last.before.peek.c).ok
                  /\ last.res.e.err = "IncorrectChar"
                  /\ last.res.e.got = last.before.peek.c
                  /\ last.res.e.position = last.before.peek.idx
    /\ last.op = "peek" => Target = last.before

(* advance failed on a mismatch after the cursor had consumed characters *)
C12_Witness ==
    /\ last.op = "advance"
    /\ ~last.res.ok
    /\ last.res.e.err = "IncorrectChar"
    /\ last.before.peek.idx.column >= 1
    /\ Target = last.before

(* C13: a cursor bounded by B never yields the boundary: whatever the      *)
(* matcher, an advance fails with EndOfInput and consumes nothing when the *)
(* lookahead satisfies B, and otherwise succeeds exactly when the          *)
(* lookahead satisfies the matcher, so that the characters the cursor      *)
(* returns are those before the first character satisfying B.              *)
C13_BoundNeverYielded ==
    (last.op = "advance" /\ last.before.ty.tag = "UntilEnd")
    => /\ AtBound(last.before)
          => /\ ~last.res.ok
             /\ last.res.e = LexerErrorEof(last.before.peek.idx)
             /\ Target = last.before
       /\ last.res.ok
          <=> /\ last.before.peek.tag = "Present"
              /\ ~is_match(last.before.ty.m, last.before.peek.c).ok
              /\ is_match(last.m, last.before.peek.c).ok
       /\ last.res.ok
          => /\ last.res.c = last.before.peek.c
             /\ last.res.s.ty = last.before.ty

(* a cursor bounded by ')' that has yielded characters stands at ')' and   *)
(* an advance whose matcher accepts ')' fails on it with EndOfInput        *)
C13_Witness ==
    /\ last.op = "advance"
    /\ last.before.ty = UntilEnd(SpecificChar(")"))
    /\ last.before.peek.tag = "Present"
    /\ last.before.peek.c = ")"
    /\ last.before.peek.idx.column >= 1
    /\ last.m \in {AnyChar, SpecificChar(")")}
    /\ ~last.res.ok
    /\ is_eof(last.res.e)

(* C17: the NumericChar matcher accepts a character if and only if it is   *)
(* one of the ten decimal digits: advance(NumericChar) on a cursor that is *)
(* not at its bound consumes the lookahead exactly when it is in 0..9.     *)
C17_NumericIsDecimalDigit ==
    (/\ last.op = "advance"
     /\ last.m = NumericChar
     /\ last.before.peek.tag = "Present"
     /\ ~AtBound(last.before))
    => (last.res.ok <=> last.before.peek.c \in DecimalDigits)

(* C18: after a successful advance that consumed the character at position *)
(* p, the lookahead is the next character of the source, or EndOfInput at  *)
(* the position just after p, and span().end is the position just after    *)
(* the consumed character, which is the position of the new lookahead.     *)
C18_EndIsAfterConsumed ==
    (last.op = "advance" /\ last.res.ok)
    => LET p  == last.before.peek.idx
           up == Upcoming(input, last.before)
           s  == last.res.s
       IN /\ s.peek = IF Len(up) >= 2 THEN Present(advance_num(p, 1), up[2])
                      ELSE Eof(advance_num(p, 1))
          /\ span(s).end = advance_num(p, 1)
          /\ span(s).end = s.peek.idx

-----------------------------------------------------------------------------
(* The loop of tests::parenthesis on a text made of groups (w1)(w2)...:    *)
(*   while v.advance('(') is ok:                                           *)
(*       second_stream = v.eat_until(')').unwrap()                         *)
(*       while second_stream.advance(Any) is ok: received.push(it)        *)
(* v is stream and second_stream is sub.                                   *)

GroupAlphabet == {"a", "b", " "}

GroupWords == Strings(GroupAlphabet, MaxLen - 1)

RECURSIVE GroupTexts(_)
(* the texts of at most n groups *)
GroupTexts(n) ==
    IF n = 0 THEN {<<>>}
    ELSE GroupTexts(n - 1) \cup
         {t \o <<"(">> \o w \o <<")">> : t \in GroupTexts(n - 1), w \in GroupWords}

InitParen ==
    /\ input \in GroupTexts(MaxGroups)
    /\ stream = LexerStreamNew(input)
    /\ sub = LexerStreamNew(input)
    /\ last = NoOp
    /\ pc = "while"
    /\ received = <<>>
    /\ stack = <<>>

(* the condition of the outer loop *)
OpenGroup ==
    /\ pc = "while"
    /\ \E r \in {advance(input, stream, SpecificChar("("))} :
          /\ stream' = r.s
          /\ pc' = IF r.ok THEN "eat_until" ELSE "done"
    /\ UNCHANGED <<input, sub, last, received, stack>>

Extract ==
    /\ pc = "eat_until"
    /\ \E r \in {eat_until(input, stream, SpecificChar(")"))} :
          /\ stream' = r.s
          /\ sub' = IF r.ok THEN r.new_lexer ELSE sub
          /\ pc' = IF r.ok THEN "drain" ELSE "aborted"
    /\ UNCHANGED <<input, last, received, stack>>

(* the condition and the body of the inner loop *)
Drain ==
    /\ pc = "drain"
    /\ \E r \in {advance(input, sub, AnyChar)} :
          /\ sub' = r.s
          /\ received' = IF r.ok THEN Append(received, r.c) ELSE received
          /\ pc' = IF r.ok THEN "drain" ELSE "while"
    /\ UNCHANGED <<input, stream, last, stack>>

NextParen == OpenGroup \/ Extract \/ Drain

SpecParen == InitParen /\ [][NextParen]_vars

NotParen(c) == c \notin {"(", ")"}

(* the characters of w1, w2, ..., wn in order *)
GroupChars(text) == SelectSeq(text, NotParen)

(* C5 as stated: the loop yields exactly the characters of w1, ..., wn in  *)
(* order, none skipped or duplicated, and ends with the outer cursor at    *)
(* end of input.                                                           *)
C5_ExtractionExact ==
    pc = "done" => (received = GroupChars(input) /\ stream.peek.tag = "Eof")

(* C5 amended: the loop yields exactly the non-whitespace characters of    *)
(* w1, ..., wn in order, none skipped or duplicated, and ends with the     *)
(* outer cursor at end of input.                                           *)
C5_ExtractionExactButWhitespace ==
    pc = "done" => (received = Yielded(GroupChars(input)) /\ stream.peek.tag = "Eof")

(* the loop has run over two groups or more and received their characters *)
C5_Witness ==
    /\ pc = "done"
    /\ Len(SelectSeq(input, LAMBDA c : c = "(")) >= 2
    /\ Len(received) >= 3
    /\ received = Yielded(GroupChars(input))

-----------------------------------------------------------------------------
(* The parser driver with a cursor handed to it: a client moves the        *)
(* driver's cursor, splits a bounded cursor off it with eat_until (sub)    *)
(* and has a rule parsed on that cursor with parse_with_lexer.  last       *)
(* records the driver's cursor before the call, the cursor handed over     *)
(* (lexer), the result of the rule on that cursor (inner) and the result   *)
(* of the call.                                                            *)

SwapAlphabet == {"1", "+", "(", ")", ".", "x"}

SwapInputs == Strings(SwapAlphabet, MaxLen + 1)

Rules == {"Number", "Factor", "Term"}

InitSwap ==
    /\ input \in SwapInputs
    /\ stream = ParserNew(input)
    /\ sub = ParserNew(input)
    /\ last = NoOp
    /\ pc = "run"
    /\ received = <<>>
    /\ stack = <<>>

(* state.lexer().eat_until::<SpecificChar<')'>>() *)
LexerEatUntil ==
    /\ pc = "run"
    /\ \E r \in {eat_until(input, stream, SpecificChar(")"))} :
          /\ r.ok
          /\ stream' = r.s
          /\ sub' = r.new_lexer
          /\ last' = [op |-> "eat_until", on |-> "stream", m |-> SpecificChar(")"),
                      before |-> stream, res |-> r]
    /\ UNCHANGED <<input, pc, received, stack>>

DoParseWithLexer(rule) ==
    /\ pc = "run"
    /\ \E r \in {ParseWithLexer(input, rule, stream, sub)} :
          /\ stream' = r.s
          /\ last' = [op |-> "parse_with_lexer", rule |-> rule, before |-> stream,
                      lexer |-> sub, inner |-> Parse(input, rule, sub), res |-> r]
          /\ pc' = IF r.kind = "Panic" THEN "aborted" ELSE "run"
    /\ UNCHANGED <<input, sub, received, stack>>

NextSwap ==
    \/ LexerAdvance
    \/ LexerEatUntil
    \/ \E rule \in Rules : DoParseWithLexer(rule)

SpecSwap == InitSwap /\ [][NextSwap]_vars

(* C11: parse_with_lexer is a scoped swap: after parse_with_lexer::<Rule>  *)
(* returns, with Ok or with Err, the driver's cursor is exactly the cursor *)
(* it had immediately before the call (lookahead, position, bound, span),  *)
(* and the result is the one the rule gives on the cursor handed over.     *)
C11_ScopedSwap ==
    (last.op = "parse_with_lexer" /\ last.res.kind \in {"Ok", "Err"})
    => /\ stream = last.before
       /\ last.res.kind = last.inner.kind
       /\ last.res.node = last.inner.node
       /\ last.res.e = last.inner.e

(* a rule succeeded on a bounded cursor, consuming characters of it, while *)
(* the driver's cursor was elsewhere *)
C11_Witness ==
    /\ last.op = "parse_with_lexer"
    /\ last.res.kind = "Ok"
    /\ last.lexer.ty.tag = "UntilEnd"
    /\ last.inner.s.peek # last.lexer.peek
    /\ last.before.peek # last.lexer.peek
    /\ last.before.peek # last.inner.s.peek
    /\ stream = last.before

-----------------------------------------------------------------------------
(* parse::<Term> on a newly constructed Parser, step by step.  stack holds *)
(* the activations of Parser::parse, Parser::parse_with_lexer and of the   *)
(* rules, the running one last; a step runs the top activation up to its   *)
(* next call, its next loop iteration or its return.  An activation that   *)
(* is on top at a position after a call finds what the call returned in    *)
(* last.  saved is the cursor a driver activation keeps aside; for Factor  *)
(* it is the bounded clone that eat_until is to return.                    *)

RunAlphabet == {"1", ".", "-", "+", "*", "(", ")"}

RunInputs ==
    Strings(RunAlphabet, MaxLen) \cup ParenInputs \cup TrailingInputs
        \cup OperatorEndInputs

Frame(fn, at, rule, saved) ==
    [fn |-> fn, at |-> at, rule |-> rule, saved |-> saved, chars |-> <<>>,
     seen_dot |-> FALSE, negate |-> FALSE, num |-> NoNode, op |-> ""]

Top == stack[Len(stack)]

Rest == SubSeq(stack, 1, Len(stack) - 1)

Running(fn, at) == pc = "run" /\ stack # <<>> /\ Top.fn = fn /\ Top.at = at

(* what a call hands back: Ok(node), Err(e) or the abort of the process *)
Ret(r) == [kind |-> r.kind, node |-> r.node, e |-> r.e]

(* the top activation returns r *)
Return(r) ==
    /\ stack' = Rest
    /\ last' = [op |-> "ret", res |-> Ret(r)]
    /\ pc' = IF r.kind = "Panic" THEN "aborted"
             ELSE IF Len(stack) = 1 THEN "returned" ELSE "run"

(* the top activation goes on as f and calls g *)
Call(f, g) == stack' = Rest \o <<f, g>> /\ UNCHANGED <<last, pc>>

(* the top activation goes on as f *)
Stay(f) == stack' = Rest \o <<f>> /\ UNCHANGED <<last, pc>>

InitRun ==
    /\ input \in RunInputs
    /\ stream = ParserNew(input)
    /\ sub = ParserNew(input)
    /\ last = NoOp
    /\ pc = "run"
    /\ received = <<>>
    /\ stack = <<Frame("parse", "call", "Term", ParserNew(input))>>

(* Parser::parse: clone the stream and call the rule *)
ParseCall ==
    /\ Running("parse", "call")
    /\ Call([Top EXCEPT !.at = "ret", !.saved = stream],
            Frame(Top.rule, "start", Top.rule, stream))
    /\ UNCHANGED <<input, stream, sub, received>>

(* Parser::parse: the rule has returned; on Err put the clone back *)
ParseReturn ==
    /\ Running("parse", "ret")
    /\ stream' = IF last.res.kind = "Err" THEN Top.saved ELSE stream
    /\ Return(last.res)
    /\ UNCHANGED <<input, sub, received>>

(* Parser::parse_with_lexer: mem::replace the stream by the given cursor   *)
(* and call parse                                                          *)
WithLexerCall ==
    /\ Running("parse_with_lexer", "call")
    /\ stream' = Top.saved
    /\ Call([Top EXCEPT !.at = "ret", !.saved = stream],
            Frame("parse", "call", Top.rule, Top.saved))
    /\ UNCHANGED <<input, sub, received>>

(* Parser::parse_with_lexer: put the old stream back and return v *)
WithLexerReturn ==
    /\ Running("parse_with_lexer", "ret")
    /\ stream' = Top.saved
    /\ Return(last.res)
    /\ UNCHANGED <<input, sub, received>>

(* Number::parse up to its loop *)
NumberStart ==
    /\ Running("Number", "start")
    /\ IF PeekIs(stream, "-")
       THEN \E a \in {eat(input, stream, "-")} :
               /\ stream' = a.s
               /\ IF a.ok THEN Stay([Top EXCEPT !.at = "loop", !.negate = TRUE])
                  ELSE Return(PErr(FromLexerError(a.e), a.s))
       ELSE stream' = stream /\ Stay([Top EXCEPT !.at = "loop"])
    /\ UNCHANGED <<input, sub, received>>

(* one iteration of the loop of Number::parse that goes on although        *)
(* advance::<NumericChar> failed                                           *)
NumberStepNoBreak(src, s, chars, seen_dot, negate) ==
    IF PeekIs(s, ".") /\ seen_dot
    THEN [go |-> "return", s |-> s, chars |-> chars, seen_dot |-> seen_dot,
          res |-> PErr(ParserErr(s, ExtraDotInNumberLiteral), s)]
    ELSE LET dot == PeekIs(s, ".")
             d == IF dot THEN eat(src, s, ".") ELSE LexerOk(".", s)
             cs == IF dot THEN Append(chars, ".") ELSE chars
             a == advance(src, d.s, NumericChar)
         IN IF ~d.ok
            THEN [go |-> "return", s |-> d.s, chars |-> cs, seen_dot |-> seen_dot,
                  res |-> PErr(FromLexerError(d.e), d.s)]
            ELSE [go |-> "loop", s |-> a.s,
                  chars |-> IF a.ok THEN Append(cs, a.c) ELSE cs,
                  seen_dot |-> seen_dot \/ dot, res |-> PPanic(a.s)]

(* one iteration of the loop of Number::parse: go is "loop" when the loop  *)
(* goes on with s, chars and seen_dot, and "return" when Number::parse     *)
(* returns res, at once or after the break                                 *)
NumberStep(src, s, chars, seen_dot, negate) ==
    IF PeekIs(s, ".") /\ seen_dot
    THEN [go |-> "return", s |-> s, chars |-> chars, seen_dot |-> seen_dot,
          res |-> PErr(ParserErr(s, ExtraDotInNumberLiteral), s)]
    ELSE LET dot == PeekIs(s, ".")
             d == IF dot THEN eat(src, s, ".") ELSE LexerOk(".", s)
             cs == IF dot THEN Append(chars, ".") ELSE chars
             a == advance(src, d.s, NumericChar)
         IN IF ~d.ok
            THEN [go |-> "return", s |-> d.s, chars |-> cs, seen_dot |-> seen_dot,
                  res |-> PErr(FromLexerError(d.e), d.s)]
            ELSE IF a.ok
            THEN [go |-> "loop", s |-> a.s, chars |-> Append(cs, a.c),
                  seen_dot |-> seen_dot \/ dot, res |-> PPanic(a.s)]
            ELSE [go |-> "return", s |-> d.s, chars |-> cs,
                  seen_dot |-> seen_dot \/ dot,
                  res |-> NumberFinish(d.s, cs, negate)]

NumberIter ==
    /\ Running("Number", "loop")
    /\ \E n \in {NumberStep(input, stream, Top.chars, Top.seen_dot, Top.negate)} :
          /\ stream' = n.s
          /\ IF n.go = "loop"
             THEN Stay([Top EXCEPT !.chars = n.chars, !.seen_dot = n.seen_dot])
             ELSE Return(n.res)
    /\ UNCHANGED <<input, sub, received>>

(* Factor::parse up to the loop of eat_until or to parse::<Number> *)
FactorStart ==
    /\ Running("Factor", "start")
    /\ IF PeekIs(stream, "(")
       THEN \E a \in {eat(input, stream, "(")} :
               /\ stream' = a.s
               /\ IF a.ok
                  THEN Stay([Top EXCEPT
                           !.at = "eat_until",
                           !.saved = [a.s EXCEPT !.ty = UntilEnd(SpecificChar(")"))]])
                  ELSE Return(PErr(FromLexerError(a.e), a.s))
       ELSE /\ stream' = stream
            /\ Call([Top EXCEPT !.at = "primary"],
                    Frame("parse", "call", "Number", stream))
    /\ UNCHANGED <<input, sub, received>>

(* one iteration of the loop of eat_until; when it ends, Factor::parse     *)
(* calls parse_with_lexer with the cursor eat_until returns                *)
EatUntilIter ==
    /\ Running("Factor", "eat_until")
    /\ \E a \in {advance(input, stream, AnyChar)} :
          /\ stream' = a.s
          /\ IF ~a.ok THEN Return(PErr(FromLexerError(a.e), a.s))
             ELSE IF is_match(SpecificChar(")"), a.c).ok
             THEN Call([Top EXCEPT !.at = "inner"],
                       Frame("parse_with_lexer", "call", "Term", Top.saved))
             ELSE Stay(Top)
    /\ UNCHANGED <<input, sub, received>>

(* the match on the lookahead that ends Factor::parse and Term::parse,     *)
(* with num the left operand: eat o1 or o2 and call parse::<rule>, or      *)
(* return num                                                              *)
OperatorMatch(num, o1, o2, rule) ==
    IF PeekIs(stream, o1) \/ PeekIs(stream, o2)
    THEN \E a \in {eat(input, stream, stream.peek.c)} :
            /\ stream' = a.s
            /\ IF a.ok
               THEN Call([Top EXCEPT !.at = "operand", !.num = num,
                                     !.op = stream.peek.c],
                         Frame("parse", "call", rule, a.s))
               ELSE Return(PErr(FromLexerError(a.e), a.s))
    ELSE stream' = stream /\ Return(POk(num, stream))

(* Factor::parse from the return of parse_with_lexer or parse::<Number> *)
FactorPrimary ==
    /\ pc = "run" /\ stack # <<>>
    /\ Top.fn = "Factor" /\ Top.at \in {"inner", "primary"}
    /\ IF last.res.kind # "Ok" THEN stream' = stream /\ Return(last.res)
       ELSE OperatorMatch(IF Top.at = "inner"
                 THEN Node(Parenthesis(last.res.node), span(stream))
                 ELSE wrapFactorVal(last.res.node), "*", "/", "Factor")
    /\ UNCHANGED <<input, sub, received>>

(* Term::parse up to parse::<Factor> *)
TermStart ==
    /\ Running("Term", "start")
    /\ Call([Top EXCEPT !.at = "primary"], Frame("parse", "call", "Factor", stream))
    /\ UNCHANGED <<input, stream, sub, received>>

(* Term::parse from the return of parse::<Factor> *)
TermPrimary ==
    /\ Running("Term", "primary")
    /\ IF last.res.kind # "Ok" THEN stream' = stream /\ Return(last.res)
       ELSE OperatorMatch(wrapTermVal(last.res.node), "+", "-", "Term")
    /\ UNCHANGED <<input, sub, received>>

(* Factor::parse and Term::parse from the return of the parse of the right *)
(* operand                                                                 *)
OperandReturn ==
    /\ pc = "run" /\ stack # <<>>
    /\ Top.fn \in {"Factor", "Term"} /\ Top.at = "operand"
    /\ IF last.res.kind # "Ok" THEN Return(last.res)
       ELSE Return(POk(ParserNode(stream,
                          BinaryValue(Top.op, Top.num, last.res.node)), stream))
    /\ UNCHANGED <<input, stream, sub, received>>

NextRun ==
    \/ ParseCall
    \/ ParseReturn
    \/ WithLexerCall
    \/ WithLexerReturn
    \/ NumberStart
    \/ NumberIter
    \/ FactorStart
    \/ EatUntilIter
    \/ FactorPrimary
    \/ TermStart
    \/ TermPrimary
    \/ OperandReturn

SpecRun == InitRun /\ [][NextRun]_vars

(* the program is one thread that takes its next step as long as it has    *)
(* one                                                                     *)
SpecRunFair == SpecRun /\ WF_vars(NextRun)

Done == pc \in {"returned", "aborted"}

(* the run ends as parse::<Term> on a new Parser does in one step under    *)
(* Spec                                                                    *)
RunAgreesWithParse ==
    Done => \E r \in {Parse(input, "Term", ParserNew(input))} :
               /\ last.res = Ret(r)
               /\ pc = "returned" => stream = r.s

(* the number of characters a cursor has yet to yield *)
Remaining(s) == Len(Upcoming(input, s))

(* a rule has returned Ok to Parser::parse with fewer characters left than *)
(* when it was called                                                      *)
RuleConsumed ==
    (/\ Running("parse", "ret")
     /\ last.op = "ret"
     /\ last.res.kind = "Ok")
    => Remaining(stream) < Remaining(Top.saved)

(* an iteration of the digit loop or of the loop of eat_until consumes a   *)
(* character or leaves the loop                                            *)
LoopProgress ==
    [][(NumberIter \/ EatUntilIter)
       => (Remaining(stream') < Remaining(stream) \/ Len(stack') # Len(stack))]_vars

(* C16: parsing always terminates: for every text parse::<Term> comes to   *)
(* its end, because every successful invocation of Number, Factor or Term  *)
(* consumes at least one character and every iteration of the digit loop   *)
(* of Number and of the skip loop of eat_until consumes a character or     *)
(* leaves the loop.                                                        *)
C16_Terminates == <>Done /\ []RuleConsumed /\ LoopProgress

(* (1+2)*5 has been parsed to its end through both loops, parse and        *)
(* parse_with_lexer                                                        *)
C16_Witness ==
    /\ pc = "returned"
    /\ stack = <<>>
    /\ input = <<"(", "1", "+", "2", ")", "*", "5">>
    /\ last.res.kind = "Ok"
    /\ evaluate(last.res.node.value) = FromInt(15)
    /\ stream.peek.tag = "Eof"

====
